---- MODULE Spec2Model ----
(***************************************************************************)
(* Reverse geocoding in geocode-glib (geocode-reverse.c): the resolution   *)
(* pipeline  cache lookup -> (hit: parse) | (miss: fetch -> parse ->       *)
(* cache save) -> deliver, in its synchronous form                         *)
(* (geocode_reverse_resolve) and its asynchronous form                     *)
(* (geocode_reverse_resolve_async, on_cache_data_loaded,                   *)
(* on_query_data_loaded, geocode_reverse_resolve_finish).                  *)
(*                                                                         *)
(* Byte strings are sequences of tokens: a token stands for a run of       *)
(* non-zero bytes (a piece of text), and the token NUL for one zero byte.  *)
(* Hash tables (GHashTable with string keys) are sets of <<key, value>>    *)
(* pairs with at most one pair per key.                                    *)
(***************************************************************************)
EXTENDS Integers, Sequences, FiniteSets, TLC

VARIABLES
    lang,       \* the process's language tag, as _geocode_object_get_lang gives it
    cacheDir,   \* whether the cache directory exists on disk
    cache,      \* the cache files: cache path -> file
    res,        \* the resolutions: slot -> the state of the call using it
    crashed,    \* the process has died on a NULL dereference
    parse,      \* a call of resolve_json taken alone: what it was given and returned
    built       \* a GeocodeReverse object taken alone: its table and the query last built

vars == <<lang, cacheDir, cache, res, crashed, parse, built>>

----------------------------------------------------------------------------
(* Bounds of the model.                                                    *)

\* how many resolutions one behaviour starts
MaxRes == 2

Res == 1..MaxRes

----------------------------------------------------------------------------
(* Strings, optional strings, hash tables.                                 *)

\* a char * that may be NULL
Null == [null |-> TRUE, str |-> ""]

Str(s) == [null |-> FALSE, str |-> s]

HtKeys(ht) == {p[1] : p \in ht}

\* g_hash_table_lookup: the value, or NULL
HtLookup(ht, k) ==
    IF k \in HtKeys(ht) THEN Str((CHOOSE p \in ht : p[1] = k)[2]) ELSE Null

\* g_hash_table_insert: an existing key's value is replaced
HtInsert(ht, k, v) == {p \in ht : p[1] # k} \cup {<<k, v>>}

\* the zero byte
NUL == "NUL"

\* the index of the first zero byte of b, or Len(b) + 1
FirstNul(b) ==
    IF \E i \in 1..Len(b) : b[i] = NUL
    THEN CHOOSE i \in 1..Len(b) : b[i] = NUL /\ \A j \in 1..(i - 1) : b[j] # NUL
    ELSE Len(b) + 1

\* g_strndup (data, length), read as the C string its callers use: the bytes
\* before the first zero byte
g_strndup(data) == SubSeq(data, 1, FirstNul(data) - 1)

----------------------------------------------------------------------------
(* JSON documents, and json-glib's parser and reader as resolve_json uses  *)
(* them.                                                                   *)

JString(s) == [type |-> "string", str |-> s, members |-> <<>>]

JObject(ms) == [type |-> "object", str |-> "", members |-> ms]

JArray == [type |-> "array", str |-> "", members |-> <<>>]

JNumber == [type |-> "number", str |-> "", members |-> <<>>]

\* the texts that are well-formed JSON, and the document each one is
JsonTexts == {"T_REV", "T_PUB", "T_ERR", "T_ARR"}

JsonDoc(t) ==
    CASE t = "T_REV" ->
           JObject(<< <<"city", JString("Guildford")>>,
                      <<"postcode", JString("GU2 7UP")>>,
                      <<"address", JObject(<< <<"country_code", JString("gb")>> >>)>> >>)
      [] t = "T_PUB" ->
           JObject(<< <<"osm_id", JNumber>>,
                      <<"display_name", JString("The Astolat")>>,
                      <<"road", JString("")>>,
                      <<"address", JObject(<< <<"pub", JString("The Astolat")>>,
                                              <<"road", JString("Old Palace Road")>> >>)>> >>)
      [] t = "T_ERR" ->
           JObject(<< <<"error", JString("You gotz done!")>> >>)
      [] OTHER -> JArray

\* json_parser_load_from_data (parser, contents, -1, error): the empty string
\* loads with no root node, a well-formed text loads as its document, and
\* anything else is a syntax error
json_parser_load_from_data(contents) ==
    IF contents = <<>>
    THEN [ok |-> TRUE, hasRoot |-> FALSE, root |-> JArray]
    ELSE IF Len(contents) = 1 /\ contents[1] \in JsonTexts
    THEN [ok |-> TRUE, hasRoot |-> TRUE, root |-> JsonDoc(contents[1])]
    ELSE [ok |-> FALSE, hasRoot |-> FALSE, root |-> JArray]

\* the member names of an object, in the order of the document
MemberNames(node) == [i \in 1..Len(node.members) |-> node.members[i][1]]

HasMember(node, name) ==
    node.type = "object" /\ \E i \in 1..Len(node.members) : node.members[i][1] = name

Member(node, name) ==
    node.members[CHOOSE i \in 1..Len(node.members) : node.members[i][1] = name][2]

\* json_reader_get_string_value on a node: the string of a string node, else NULL
json_reader_get_string_value(node) ==
    IF node.type = "string" THEN Str(node.str) ELSE Null

\* json_reader_list_members: the member names of an object node; NULL for a
\* node that is no object (there is no node at all when hasNode is FALSE)
json_reader_list_members(hasNode, node) ==
    IF hasNode /\ node.type = "object"
    THEN [null |-> FALSE, names |-> MemberNames(node)]
    ELSE [null |-> TRUE, names |-> <<>>]

----------------------------------------------------------------------------
(* The response parser: attrs_map, nominatim_to_xep,                       *)
(* add_nominatim_attributes, resolve_json.                                 *)

attrs_map ==
    << <<"license", Null>>,
       <<"osm_type", Null>>,
       <<"osm_id", Null>>,
       <<"lat", Null>>,
       <<"lon", Null>>,
       <<"display_name", Str("description")>>,
       <<"house_number", Str("building")>>,
       <<"road", Str("street")>>,
       <<"suburb", Str("area")>>,
       <<"city", Str("locality")>>,
       <<"county", Null>>,
       <<"state_district", Null>>,
       <<"state", Str("region")>>,
       <<"postcode", Str("postalcode")>>,
       <<"country", Str("country")>>,
       <<"country_code", Str("countrycode")>>,
       <<"continent", Null>>,
       <<"address", Null>> >>

\* the first entry of attrs_map for attr gives the name; NULL when there is none
nominatim_to_xep(attr) ==
    IF \E i \in 1..Len(attrs_map) : attrs_map[i][1] = attr
    THEN attrs_map[CHOOSE i \in 1..Len(attrs_map) :
                       /\ attrs_map[i][1] = attr
                       /\ \A j \in 1..(i - 1) : attrs_map[j][1] # attr][2]
    ELSE Null

\* the value kept as it is, the empty string included
NullIfEmpty_keep(value) == value

\* `if (value && *value == '\0') value = NULL;`
NullIfEmpty(value) == IF ~value.null /\ value.str = "" THEN Null ELSE value

\* the body of `if (value != NULL)`: the value goes under the name of
\* attrs_map when there is one, and under the member's own name when not
InsertValue(hash_table, name, xep_attr, value) ==
    IF value.null
    THEN hash_table
    ELSE IF ~xep_attr.null
    THEN HtInsert(hash_table, xep_attr.str, value.str)
    ELSE HtInsert(hash_table, name, value.str)

\* one turn of the loop of add_nominatim_attributes, on member i of node, err
\* saying whether the reader is in its error state when the turn starts. In
\* that state json_reader_read_member does not move and returns FALSE, and
\* json_reader_get_string_value returns NULL: the turn adds nothing.
AddMember(node, i, err, hash_table) ==
    IF err
    THEN hash_table
    ELSE InsertValue(hash_table, node.members[i][1],
                     nominatim_to_xep(node.members[i][1]),
                     NullIfEmpty(json_reader_get_string_value(node.members[i][2])))

\* the loop from member i on: the json_reader_end_member that ends a turn
\* takes the reader out of its error state
RECURSIVE AddMembers(_, _, _, _)
AddMembers(node, i, err, hash_table) ==
    IF i > Len(node.members)
    THEN [err |-> err, ht |-> hash_table]
    ELSE AddMembers(node, i + 1, FALSE, AddMember(node, i, err, hash_table))

\* what add_nominatim_attributes leaves when its loop has ended
Added(added) == [crash |-> FALSE, err |-> added.err, ht |-> added.ht]

\* add_nominatim_attributes (reader, hash_table) with the reader on node: the
\* loop reads members[i] of the array json_reader_list_members returned, so a
\* NULL array is a NULL dereference. err is the reader's error state, before
\* and after.
add_nominatim_attributes(hasNode, node, err, hash_table) ==
    IF json_reader_list_members(hasNode, node).null
    THEN [crash |-> TRUE, err |-> err, ht |-> hash_table]
    ELSE Added(AddMembers(node, 1, err, hash_table))

NoError == [domain |-> "", code |-> "", message |-> ""]

GError(domain, code, message) ==
    [domain |-> domain, code |-> code, message |-> message]

\* what a call that returns a GHashTable * and sets a GError can do: return a
\* table, return NULL with the error set, or die
RetTable(ht) == [crash |-> FALSE, null |-> FALSE, ht |-> ht, error |-> NoError]

\* a call that returns NULL and leaves the GError unset
RetError_unset(e) == [crash |-> FALSE, null |-> TRUE, ht |-> {}, error |-> NoError]

RetError(e) == [crash |-> FALSE, null |-> TRUE, ht |-> {}, error |-> e]

RetCrash == [crash |-> TRUE, null |-> TRUE, ht |-> {}, error |-> NoError]

\* json_reader_read_member (reader, name) with the reader on node: TRUE when
\* the reader is not in its error state and node is an object with that member
json_reader_read_member(hasNode, node, err, name) ==
    ~err /\ hasNode /\ HasMember(node, name)

\* the branch of resolve_json for a document with a member `error`, msg the
\* string value of the member before the empty one is taken for NULL
NotSupported(msg) ==
    RetError(GError("GEOCODE_ERROR", "GEOCODE_ERROR_NOT_SUPPORTED",
                    IF NullIfEmpty(msg).null THEN "Query not supported" ELSE msg.str))

\* the same, the message being the string of the member even when it is empty
NotSupported_rawmsg(msg) ==
    RetError(GError("GEOCODE_ERROR", "GEOCODE_ERROR_NOT_SUPPORTED",
                    IF msg.null THEN "Query not supported" ELSE msg.str))

\* what resolve_json returns after a pass of add_nominatim_attributes
TableOf(pass) == IF pass.crash THEN RetCrash ELSE RetTable(pass.ht)

\* resolve_json from its second call of add_nominatim_attributes on, top being
\* what the first one left: the members of `address` are added to the table
\* that has the members of the top level
AddressPass(root, top) ==
    IF top.crash
    THEN RetCrash
    ELSE IF json_reader_read_member(TRUE, root, top.err, "address")
    THEN TableOf(add_nominatim_attributes(TRUE, Member(root, "address"), FALSE, top.ht))
    ELSE RetTable(top.ht)

\* the members of the top level added to the table that has the members of
\* `address`
TopPass(loaded, sub) ==
    IF sub.crash
    THEN RetCrash
    ELSE TableOf(add_nominatim_attributes(loaded.hasRoot, loaded.root, sub.err, sub.ht))

\* resolve_json that takes the string of the member `error` as the message
\* even when it is empty
resolve_json_loaded_rawmsg(loaded) ==
    IF ~loaded.ok
    THEN RetError(GError("JSON_PARSER_ERROR", "SYNTAX", "parse error"))
    ELSE IF json_reader_read_member(loaded.hasRoot, loaded.root, FALSE, "error")
    THEN NotSupported_rawmsg(json_reader_get_string_value(Member(loaded.root, "error")))
    ELSE AddressPass(loaded.root,
                     add_nominatim_attributes(loaded.hasRoot, loaded.root, TRUE, {}))

\* resolve_json that adds the members of `address` first and the members of
\* the top level after them
resolve_json_loaded_addressfirst(loaded) ==
    IF ~loaded.ok
    THEN RetError(GError("JSON_PARSER_ERROR", "SYNTAX", "parse error"))
    ELSE IF json_reader_read_member(loaded.hasRoot, loaded.root, FALSE, "error")
    THEN NotSupported(json_reader_get_string_value(Member(loaded.root, "error")))
    ELSE IF json_reader_read_member(loaded.hasRoot, loaded.root, FALSE, "address")
    THEN TopPass(loaded, add_nominatim_attributes(TRUE, Member(loaded.root, "address"),
                                                  FALSE, {}))
    ELSE TopPass(loaded, [crash |-> FALSE, err |-> TRUE, ht |-> {}])

\* resolve_json from the parser's result on. The json_reader_read_member for
\* "error" that fails leaves the reader in its error state, and no
\* json_reader_end_member follows it: add_nominatim_attributes starts its loop
\* over the top level in that state.
resolve_json_loaded(loaded) ==
    IF ~loaded.ok
    THEN RetError(GError("JSON_PARSER_ERROR", "SYNTAX", "parse error"))
    ELSE IF json_reader_read_member(loaded.hasRoot, loaded.root, FALSE, "error")
    THEN NotSupported(json_reader_get_string_value(Member(loaded.root, "error")))
    ELSE AddressPass(loaded.root,
                     add_nominatim_attributes(loaded.hasRoot, loaded.root, TRUE, {}))

\* resolve_json (contents, error)
resolve_json(contents) == resolve_json_loaded(json_parser_load_from_data(contents))

----------------------------------------------------------------------------
(* The query: geocode_reverse_new_for_location and                         *)
(* get_resolve_query_for_params.                                           *)

\* coordinates are in millionths of a degree
Abs(x) == IF x < 0 THEN -x ELSE x

\* the weight of the sixth significant decimal digit of a
SixthDigit(a) ==
    IF a < 1000000 THEN 1
    ELSE IF a < 10000000 THEN 10
    ELSE IF a < 100000000 THEN 100
    ELSE 1000

\* g_strdup_printf ("%g", x): x with six significant digits
FormatG(x) ==
    LET u == SixthDigit(Abs(x))
        r == ((Abs(x) + (u \div 2)) \div u) * u
    IN  IF x < 0 THEN "-" \o ToString(r) ELSE ToString(r)

\* the places looked up: Guildford (the one of test_rev), a place some three
\* metres north of it, and Paris
Locations ==
    { [lat |-> 51237070, lon |-> -589669],
      [lat |-> 51237099, lon |-> -589669],
      [lat |-> 48856614, lon |-> 2352222] }

NoLoc == [lat |-> 0, lon |-> 0]

\* the parameter table of the object geocode_reverse_new_for_location makes
geocode_reverse_new_for_location(location) ==
    HtInsert(HtInsert({}, "lat", FormatG(location.lat)), "lon", FormatG(location.lon))

\* the language tags _geocode_object_get_lang can give: none, or one
Langs == {Null, Str("en_GB")}

\* _geocode_glib_dup_hash_table: a table with the same entries
_geocode_glib_dup_hash_table(ht) == {p : p \in ht}

\* g_hash_table_insert only when the table has no value for the key
InsertDefault(ht, key, value) ==
    IF HtLookup(ht, key).null THEN HtInsert(ht, key, value) ELSE ht

\* get_resolve_query_for_params that leaves a value the table already has
\* for format, email or addressdetails
get_resolve_query_for_params_keep(orig_ht, locale) ==
    LET ht0 == _geocode_glib_dup_hash_table(orig_ht)
        ht1 == InsertDefault(ht0, "format", "json")
        ht2 == InsertDefault(ht1, "email", "zeeshanak@gnome.org")
        ht3 == InsertDefault(ht2, "addressdetails", "1")
    IN  IF HtLookup(ht3, "accept-language").null /\ ~locale.null
        THEN HtInsert(ht3, "accept-language", locale.str)
        ELSE ht3

\* get_resolve_query_for_params (orig_ht), with locale the tag
\* _geocode_object_get_lang gives. The message is told from another by its
\* URI, and the URI by the parameters that soup_form_encode_hash encodes.
get_resolve_query_for_params(orig_ht, locale) ==
    LET ht0 == _geocode_glib_dup_hash_table(orig_ht)
        ht1 == HtInsert(ht0, "format", "json")
        ht2 == HtInsert(ht1, "email", "zeeshanak@gnome.org")
        ht3 == HtInsert(ht2, "addressdetails", "1")
    IN  IF HtLookup(ht3, "accept-language").null /\ ~locale.null
        THEN HtInsert(ht3, "accept-language", locale.str)
        ELSE ht3

\* a call of get_resolve_query_for_params without the copy: the inserts go
\* to the object's table
BuildFor_inplace(orig_ht, locale) ==
    [orig_ht |-> get_resolve_query_for_params(orig_ht, locale),
     query |-> get_resolve_query_for_params(orig_ht, locale)]

\* a call of get_resolve_query_for_params (object->priv->ht), as the object
\* sees it: the message built, and the object's table after the call. The
\* inserts go to the copy _geocode_glib_dup_hash_table made, which the call
\* destroys.
BuildFor(orig_ht, locale) ==
    [orig_ht |-> orig_ht, query |-> get_resolve_query_for_params(orig_ht, locale)]

\* every message the model's resolutions can build
Queries ==
    { get_resolve_query_for_params(geocode_reverse_new_for_location(l), t) :
        l \in Locations, t \in Langs }

----------------------------------------------------------------------------
(* The cache (geocode-glib.c): one file per query in the cache directory.  *)

\* a file that does not exist, and one holding data
NoFile == [exists |-> FALSE, data |-> <<>>]

File(data) == [exists |-> TRUE, data |-> data]

\* _geocode_glib_cache_path_for_query (query): NULL when the cache directory
\* neither exists nor can be made (mk), else the query's own path
_geocode_glib_cache_path_for_query(query, dir, mk) ==
    IF dir \/ mk THEN [null |-> FALSE, path |-> query] ELSE [null |-> TRUE, path |-> query]

\* _geocode_glib_cache_load (query, &contents): FALSE when there is no path or
\* the file cannot be read
_geocode_glib_cache_load(query, dir, files, mk) ==
    LET path == _geocode_glib_cache_path_for_query(query, dir, mk)
    IN  IF ~path.null /\ files[path.path].exists
        THEN [ok |-> TRUE, contents |-> g_strndup(files[path.path].data)]
        ELSE [ok |-> FALSE, contents |-> <<>>]

\* _geocode_glib_cache_save (query, contents): writes the C string contents to
\* the query's file; with no path, or when the write fails, no file changes
_geocode_glib_cache_save(query, contents, dir, files, mk, writeOk) ==
    LET path == _geocode_glib_cache_path_for_query(query, dir, mk)
    IN  IF ~path.null /\ writeOk
        THEN [ok |-> TRUE, files |-> [files EXCEPT ![path.path] = File(contents)]]
        ELSE [ok |-> FALSE, files |-> files]

----------------------------------------------------------------------------
(* The network: what the service can answer to a request.                  *)

SOUP_STATUS_OK == 200

\* the response bodies: two address documents, an address document followed
\* by a zero byte and more bytes, a service error, text that is no JSON, and
\* a JSON array
Bodies ==
    { <<"T_REV">>, <<"T_PUB">>, <<"T_REV", NUL, "T_JUNK">>,
      <<"T_ERR">>, <<"T_BAD">>, <<"T_ARR">> }

NoResp == [status |-> 0, reason |-> Null, body |-> <<>>]

\* a SoupMessage once answered: status_code, reason_phrase, response_body
Responses ==
    { [status |-> SOUP_STATUS_OK, reason |-> Str("OK"), body |-> b] : b \in Bodies }
    \cup { [status |-> 404, reason |-> Str("Not Found"), body |-> <<"T_REV">>],
           [status |-> 2, reason |-> Null, body |-> <<>>] }

----------------------------------------------------------------------------
(* A resolution: one call of geocode_reverse_resolve, or one call of       *)
(* geocode_reverse_resolve_async with the callbacks that follow it.        *)

\* what a caller is handed: a table, or NULL and an error
NoOut == [null |-> TRUE, ht |-> {}, error |-> NoError]

OutOf(ret) == [null |-> ret.null, ht |-> ret.ht, error |-> ret.error]

NoMap == [set |-> FALSE, ht |-> {}]

\* stage:  Idle, CacheLookup (g_file_load_contents_async is pending), Fetching
\*         (the message is queued), Parsing (it died in resolve_json),
\*         Completing (the completion is scheduled in idle), Done (delivered)
\* simple: the GSimpleAsyncResult's error and op_res
\* out:    what geocode_reverse_resolve or geocode_reverse_resolve_finish returned
\* history, for the properties: mode, cancelAt (the stage it was in when its
\* GCancellable was cancelled), look (how the cache lookup ended), seen (the
\* cache file as the lookup found it), resp (the answer to its request), net
\* (requests sent), stores (the calls of _geocode_glib_cache_save), completions
\* (calls of g_simple_async_result_complete_in_idle), loc (the location its
\* GeocodeReverse was made for), callbacks (calls of the
\* caller's callback), prior (the table handed out by a resolution that had
\* fetched and stored the answer to the same query when this one started)
IdleRes ==
    [stage |-> "Idle", mode |-> "none", loc |-> NoLoc, query |-> {},
     cancelAt |-> "none",
     look |-> "none", seen |-> NoFile, resp |-> NoResp, simple |-> NoOut,
     out |-> NoOut, net |-> 0, stores |-> <<>>, completions |-> 0,
     callbacks |-> 0, prior |-> NoMap]

\* the fetch failure that never carries the reason phrase of the response
IOFailed_generic(resp) ==
    GError("G_IO_ERROR", "G_IO_ERROR_FAILED", "Query failed")

IOFailed(resp) ==
    GError("G_IO_ERROR", "G_IO_ERROR_FAILED",
           IF ~resp.reason.null THEN resp.reason.str ELSE "Query failed")

\* a handler schedules the completion of the resolution s with the result out
\* (g_simple_async_result_complete_in_idle)
CompleteInIdle(s, out) ==
    [s EXCEPT !.stage = "Completing", !.simple = out,
              !.completions = s.completions + 1]

\* a handler queues the message of the resolution s (soup_session_queue_message)
QueueMessage(s, look) ==
    [s EXCEPT !.stage = "Fetching", !.look = look, !.net = s.net + 1]

\* a handler calls _geocode_glib_cache_save for the resolution s
Stored(s, contents, saved) ==
    [s EXCEPT !.stores = Append(s.stores, [query |-> s.query, contents |-> contents,
                                            ok |-> saved.ok])]

----------------------------------------------------------------------------
(* Faulty variants of the operations that follow: each is the operation    *)
(* with one plausible fault, and each property below is checked to tell    *)
(* the operation from its variant.                                         *)

\* SaveToCache that stores what a cache hit parsed to
SaveToCache_hit(to_cache, ret) == ~ret.null

\* on_cache_data_loaded that queues the message though the cache file loaded
on_cache_data_loaded_refetch(s, file) ==
    LET load == IF s.cancelAt # "none" \/ ~file.exists
                THEN [ok |-> FALSE, contents |-> <<>>]
                ELSE [ok |-> TRUE, contents |-> g_strndup(file.data)]
        s1   == [s EXCEPT !.seen = file]
    IN  [crash |-> FALSE,
         s |-> QueueMessage(s1, IF load.ok THEN "hit"
                                ELSE IF s.cancelAt # "none" THEN "cancelled"
                                ELSE "miss")]

\* on_cache_data_loaded that falls back to the network when the cache file
\* does not parse
on_cache_data_loaded_fallback(s, file) ==
    LET load == IF s.cancelAt # "none" \/ ~file.exists
                THEN [ok |-> FALSE, contents |-> <<>>]
                ELSE [ok |-> TRUE, contents |-> g_strndup(file.data)]
        ret  == resolve_json(load.contents)
        s1   == [s EXCEPT !.seen = file]
    IN  IF ~load.ok
        THEN [crash |-> FALSE,
              s |-> QueueMessage(s1, IF s.cancelAt # "none" THEN "cancelled" ELSE "miss")]
        ELSE IF ret.crash
        THEN [crash |-> TRUE, s |-> [s1 EXCEPT !.stage = "Parsing", !.look = "hit"]]
        ELSE IF ret.null
        THEN [crash |-> FALSE, s |-> QueueMessage(s1, "hit")]
        ELSE [crash |-> FALSE,
              s |-> CompleteInIdle([s1 EXCEPT !.look = "hit"], OutOf(ret))]

\* on_cache_data_loaded that, when the load failed, sends no request of its
\* own and loads the cache file again, for another resolution to fill it
on_cache_data_loaded_wait(s, file) ==
    LET load == IF s.cancelAt # "none" \/ ~file.exists
                THEN [ok |-> FALSE, contents |-> <<>>]
                ELSE [ok |-> TRUE, contents |-> g_strndup(file.data)]
        ret  == resolve_json(load.contents)
        s1   == [s EXCEPT !.seen = file]
    IN  IF ~load.ok
        THEN [crash |-> FALSE,
              s |-> [s1 EXCEPT !.look = IF s.cancelAt # "none" THEN "cancelled"
                                        ELSE "miss"]]
        ELSE IF ret.crash
        THEN [crash |-> TRUE, s |-> [s1 EXCEPT !.stage = "Parsing", !.look = "hit"]]
        ELSE [crash |-> FALSE,
              s |-> CompleteInIdle([s1 EXCEPT !.look = "hit"], OutOf(ret))]

\* on_cache_data_loaded that hands the caller the error of the failed load
on_cache_data_loaded_surface(s, file) ==
    LET load == IF s.cancelAt # "none" \/ ~file.exists
                THEN [ok |-> FALSE, contents |-> <<>>]
                ELSE [ok |-> TRUE, contents |-> g_strndup(file.data)]
        ret  == resolve_json(load.contents)
        s1   == [s EXCEPT !.seen = file]
    IN  IF ~load.ok
        THEN [crash |-> FALSE,
              s |-> CompleteInIdle(
                        [s1 EXCEPT !.look = IF s.cancelAt # "none" THEN "cancelled"
                                            ELSE "miss"],
                        OutOf(RetError(GError("G_IO_ERROR",
                                              IF s.cancelAt # "none"
                                              THEN "G_IO_ERROR_CANCELLED"
                                              ELSE "G_IO_ERROR_NOT_FOUND",
                                              "load failed"))))]
        ELSE IF ret.crash
        THEN [crash |-> TRUE, s |-> [s1 EXCEPT !.stage = "Parsing", !.look = "hit"]]
        ELSE [crash |-> FALSE,
              s |-> CompleteInIdle([s1 EXCEPT !.look = "hit"], OutOf(ret))]

\* on_query_data_loaded that looks at the GCancellable and gives up when it
\* was cancelled
on_query_data_loaded_cancel(s, resp, dir, files, mk, writeOk) ==
    LET contents == g_strndup(resp.body)
        ret      == resolve_json(contents)
        saved    == _geocode_glib_cache_save(s.query, contents, dir, files, mk, writeOk)
        s1       == [s EXCEPT !.resp = resp]
    IN  IF s.cancelAt # "none"
        THEN [crash |-> FALSE, dir |-> dir, files |-> files,
              s |-> CompleteInIdle(s1, OutOf(RetError(GError("G_IO_ERROR",
                                                             "G_IO_ERROR_CANCELLED",
                                                             "cancelled"))))]
        ELSE IF resp.status # SOUP_STATUS_OK
        THEN [crash |-> FALSE, dir |-> dir, files |-> files,
              s |-> CompleteInIdle(s1, OutOf(RetError(IOFailed(resp))))]
        ELSE IF ret.crash
        THEN [crash |-> TRUE, dir |-> dir, files |-> files,
              s |-> [s1 EXCEPT !.stage = "Parsing"]]
        ELSE IF ret.null
        THEN [crash |-> FALSE, dir |-> dir, files |-> files,
              s |-> CompleteInIdle(s1, OutOf(ret))]
        ELSE [crash |-> FALSE, dir |-> dir \/ mk, files |-> saved.files,
              s |-> CompleteInIdle(Stored(s1, contents, saved), OutOf(ret))]

\* on_query_data_loaded that saves the body before it looks at what the body
\* parsed to
on_query_data_loaded_storefirst(s, resp, dir, files, mk, writeOk) ==
    LET contents == g_strndup(resp.body)
        ret      == resolve_json(contents)
        saved    == _geocode_glib_cache_save(s.query, contents, dir, files, mk, writeOk)
        s1       == [s EXCEPT !.resp = resp]
    IN  IF resp.status # SOUP_STATUS_OK
        THEN [crash |-> FALSE, dir |-> dir, files |-> files,
              s |-> CompleteInIdle(s1, OutOf(RetError(IOFailed(resp))))]
        ELSE IF ret.crash
        THEN [crash |-> TRUE, dir |-> dir, files |-> files,
              s |-> [s1 EXCEPT !.stage = "Parsing"]]
        ELSE [crash |-> FALSE, dir |-> dir \/ mk, files |-> saved.files,
              s |-> CompleteInIdle(Stored(s1, contents, saved), OutOf(ret))]

\* on_query_data_loaded that hands the caller an error when the save to the
\* cache failed
on_query_data_loaded_savefail(s, resp, dir, files, mk, writeOk) ==
    LET contents == g_strndup(resp.body)
        ret      == resolve_json(contents)
        saved    == _geocode_glib_cache_save(s.query, contents, dir, files, mk, writeOk)
        s1       == [s EXCEPT !.resp = resp]
    IN  IF resp.status # SOUP_STATUS_OK
        THEN [crash |-> FALSE, dir |-> dir, files |-> files,
              s |-> CompleteInIdle(s1, OutOf(RetError(IOFailed(resp))))]
        ELSE IF ret.crash
        THEN [crash |-> TRUE, dir |-> dir, files |-> files,
              s |-> [s1 EXCEPT !.stage = "Parsing"]]
        ELSE IF ret.null
        THEN [crash |-> FALSE, dir |-> dir, files |-> files,
              s |-> CompleteInIdle(s1, OutOf(ret))]
        ELSE IF ~saved.ok
        THEN [crash |-> FALSE, dir |-> dir \/ mk, files |-> saved.files,
              s |-> CompleteInIdle(Stored(s1, contents, saved),
                                   OutOf(RetError(GError("G_IO_ERROR", "G_IO_ERROR_FAILED",
                                                         "save failed"))))]
        ELSE [crash |-> FALSE, dir |-> dir \/ mk, files |-> saved.files,
              s |-> CompleteInIdle(Stored(s1, contents, saved), OutOf(ret))]

\* on_query_data_loaded that queues the message again when the fetch failed
on_query_data_loaded_retry(s, resp, dir, files, mk, writeOk) ==
    LET contents == g_strndup(resp.body)
        ret      == resolve_json(contents)
        saved    == _geocode_glib_cache_save(s.query, contents, dir, files, mk, writeOk)
        s1       == [s EXCEPT !.resp = resp]
    IN  IF resp.status # SOUP_STATUS_OK
        THEN [crash |-> FALSE, dir |-> dir, files |-> files,
              s |-> QueueMessage(s1, s.look)]
        ELSE IF ret.crash
        THEN [crash |-> TRUE, dir |-> dir, files |-> files,
              s |-> [s1 EXCEPT !.stage = "Parsing"]]
        ELSE IF ret.null
        THEN [crash |-> FALSE, dir |-> dir, files |-> files,
              s |-> CompleteInIdle(s1, OutOf(ret))]
        ELSE [crash |-> FALSE, dir |-> dir \/ mk, files |-> saved.files,
              s |-> CompleteInIdle(Stored(s1, contents, saved), OutOf(ret))]

\* geocode_reverse_resolve_finish that does not propagate the error
geocode_reverse_resolve_finish_noerror(simple) ==
    [null |-> simple.null, ht |-> simple.ht, error |-> NoError]

----------------------------------------------------------------------------
(* The operations of GeocodeReverse.                                       *)

\* geocode_reverse_resolve: "if (to_cache && ret != NULL)", whether the
\* contents are saved to the cache
SaveToCache(to_cache, ret) == to_cache /\ ~ret.null

\* geocode_reverse_resolve (object, error) on the object with table ht, in a
\* world with cache directory dir and cache files files, where mk1 and mk2
\* say whether the cache directory can be made at the load and at the save,
\* resp is the service's answer if asked, and writeOk whether a write succeeds.
\* s is the resolution as it ends, dir and files the world as it leaves it.
geocode_reverse_resolve(ht, locale, dir, files, mk1, mk2, resp, writeOk) ==
    LET query    == get_resolve_query_for_params(ht, locale)
        load     == _geocode_glib_cache_load(query, dir, files, mk1)
        dir1     == dir \/ mk1
        to_cache == ~load.ok
        contents == IF load.ok THEN load.contents ELSE g_strndup(resp.body)
        ret      == resolve_json(contents)
        saved    == _geocode_glib_cache_save(query, contents, dir1, files, mk2, writeOk)
        s0       == [IdleRes EXCEPT
                        !.mode = "sync", !.query = query,
                        !.look = IF load.ok THEN "hit"
                                 ELSE IF dir1 THEN "miss" ELSE "nopath",
                        !.seen = IF dir1 THEN files[query] ELSE NoFile,
                        !.resp = IF to_cache THEN resp ELSE NoResp,
                        !.net = IF to_cache THEN 1 ELSE 0]
    IN  IF to_cache /\ resp.status # SOUP_STATUS_OK
        THEN [crash |-> FALSE, dir |-> dir1, files |-> files,
              s |-> [s0 EXCEPT !.stage = "Done", !.out = OutOf(RetError(IOFailed(resp)))]]
        ELSE IF ret.crash
        THEN [crash |-> TRUE, dir |-> dir1, files |-> files,
              s |-> [s0 EXCEPT !.stage = "Parsing"]]
        ELSE IF SaveToCache(to_cache, ret)
        THEN [crash |-> FALSE, dir |-> dir1 \/ mk2, files |-> saved.files,
              s |-> [Stored(s0, contents, saved) EXCEPT !.stage = "Done",
                                                       !.out = OutOf(ret)]]
        ELSE [crash |-> FALSE, dir |-> dir1, files |-> files,
              s |-> [s0 EXCEPT !.stage = "Done", !.out = OutOf(ret)]]

\* geocode_reverse_resolve_async (object, cancellable, callback, user_data):
\* with no cache path the message is queued at once, else the cache file is
\* loaded. The result is the resolution as the call leaves it.
geocode_reverse_resolve_async(ht, locale, dir, mk) ==
    LET query      == get_resolve_query_for_params(ht, locale)
        cache_path == _geocode_glib_cache_path_for_query(query, dir, mk)
        s0         == [IdleRes EXCEPT !.mode = "async", !.query = query]
    IN  IF cache_path.null
        THEN QueueMessage(s0, "nopath")
        ELSE [s0 EXCEPT !.stage = "CacheLookup"]

\* g_file_load_contents_finish on the cache file: FALSE when the load was
\* cancelled or the file cannot be read
g_file_load_contents_finish(file, cancelled) ==
    IF cancelled \/ ~file.exists
    THEN [ok |-> FALSE, contents |-> <<>>]
    ELSE [ok |-> TRUE, contents |-> g_strndup(file.data)]

\* on_cache_data_loaded for the resolution s, the cache file being file
on_cache_data_loaded(s, file) ==
    LET load == g_file_load_contents_finish(file, s.cancelAt # "none")
        ret  == resolve_json(load.contents)
        s1   == [s EXCEPT !.seen = file]
    IN  IF ~load.ok
        THEN [crash |-> FALSE,
              s |-> QueueMessage(s1, IF s.cancelAt # "none" THEN "cancelled" ELSE "miss")]
        ELSE IF ret.crash
        THEN [crash |-> TRUE, s |-> [s1 EXCEPT !.stage = "Parsing", !.look = "hit"]]
        ELSE [crash |-> FALSE,
              s |-> CompleteInIdle([s1 EXCEPT !.look = "hit"], OutOf(ret))]

\* on_query_data_loaded that schedules the completion with the table and
\* leaves the save to a later time
on_query_data_loaded_nosave(s, resp, dir, files, mk, writeOk) ==
    LET contents == g_strndup(resp.body)
        ret      == resolve_json(contents)
        s1       == [s EXCEPT !.resp = resp]
    IN  IF resp.status # SOUP_STATUS_OK
        THEN [crash |-> FALSE, dir |-> dir, files |-> files,
              s |-> CompleteInIdle(s1, OutOf(RetError(IOFailed(resp))))]
        ELSE IF ret.crash
        THEN [crash |-> TRUE, dir |-> dir, files |-> files,
              s |-> [s1 EXCEPT !.stage = "Parsing"]]
        ELSE [crash |-> FALSE, dir |-> dir, files |-> files,
              s |-> CompleteInIdle(s1, OutOf(ret))]

\* on_query_data_loaded that saves under the key of a query built again from
\* lat and lon, without the tag of the locale
on_query_data_loaded_otherkey(s, resp, dir, files, mk, writeOk) ==
    LET contents == g_strndup(resp.body)
        ret      == resolve_json(contents)
        again    == get_resolve_query_for_params({p \in s.query : p[1] \in {"lat", "lon"}},
                                                 Null)
        saved    == _geocode_glib_cache_save(again, contents, dir, files, mk, writeOk)
        s1       == [s EXCEPT !.resp = resp]
    IN  IF resp.status # SOUP_STATUS_OK
        THEN [crash |-> FALSE, dir |-> dir, files |-> files,
              s |-> CompleteInIdle(s1, OutOf(RetError(IOFailed(resp))))]
        ELSE IF ret.crash
        THEN [crash |-> TRUE, dir |-> dir, files |-> files,
              s |-> [s1 EXCEPT !.stage = "Parsing"]]
        ELSE IF ret.null
        THEN [crash |-> FALSE, dir |-> dir, files |-> files,
              s |-> CompleteInIdle(s1, OutOf(ret))]
        ELSE [crash |-> FALSE, dir |-> dir \/ mk, files |-> saved.files,
              s |-> CompleteInIdle(Stored(s1, contents, saved), OutOf(ret))]

\* on_query_data_loaded for the resolution s, the answer being resp
on_query_data_loaded(s, resp, dir, files, mk, writeOk) ==
    LET contents == g_strndup(resp.body)
        ret      == resolve_json(contents)
        saved    == _geocode_glib_cache_save(s.query, contents, dir, files, mk, writeOk)
        s1       == [s EXCEPT !.resp = resp]
    IN  IF resp.status # SOUP_STATUS_OK
        THEN [crash |-> FALSE, dir |-> dir, files |-> files,
              s |-> CompleteInIdle(s1, OutOf(RetError(IOFailed(resp))))]
        ELSE IF ret.crash
        THEN [crash |-> TRUE, dir |-> dir, files |-> files,
              s |-> [s1 EXCEPT !.stage = "Parsing"]]
        ELSE IF ret.null
        THEN [crash |-> FALSE, dir |-> dir, files |-> files,
              s |-> CompleteInIdle(s1, OutOf(ret))]
        ELSE [crash |-> FALSE, dir |-> dir \/ mk, files |-> saved.files,
              s |-> CompleteInIdle(Stored(s1, contents, saved), OutOf(ret))]

\* geocode_reverse_resolve_finish (object, res, error): the error of simple
\* if it has one, else its op_res
geocode_reverse_resolve_finish(simple) ==
    IF simple.error # NoError
    THEN [null |-> TRUE, ht |-> {}, error |-> simple.error]
    ELSE [null |-> simple.null, ht |-> simple.ht, error |-> NoError]

----------------------------------------------------------------------------
(* The state machine.                                                      *)

\* no object is taken alone
NoBuilt == [stage |-> "none", created |-> {}, ht |-> {}, query |-> {}, calls |-> 0]

\* no call of resolve_json is taken alone
NoParse == [stage |-> "none", loaded |-> [ok |-> FALSE, hasRoot |-> FALSE, root |-> JArray],
            ret |-> RetCrash]

\* the cache files a run can find at its start: none, a stored answer, or a
\* file that is no JSON
InitFiles == {NoFile, File(<<"T_REV">>), File(<<"T_BAD">>)}

Init ==
    /\ lang \in Langs
    /\ cacheDir \in BOOLEAN
    /\ \E f \in InitFiles :
          cache = [q \in Queries |-> IF cacheDir THEN f ELSE NoFile]
    /\ res = [r \in Res |-> IdleRes]
    /\ crashed = FALSE
    /\ parse = NoParse
    /\ built = NoBuilt

\* a resolution may start in slot r: the slots are taken lowest first
CanStart(r) ==
    /\ ~crashed
    /\ res[r].stage = "Idle"
    /\ \A q \in Res : q < r => res[q].stage # "Idle"

\* the resolution s was delivered a table it had fetched and stored
Populated(s) ==
    /\ s.stage = "Done"
    /\ ~s.out.null
    /\ s.net > 0
    /\ \E i \in 1..Len(s.stores) : s.stores[i].ok

\* prior, for a resolution that starts on query
PriorFor(query) ==
    IF \E q \in Res : Populated(res[q]) /\ res[q].query = query
    THEN [set |-> TRUE,
          ht |-> res[CHOOSE q \in Res : Populated(res[q]) /\ res[q].query = query].out.ht]
    ELSE NoMap

\* whether the cache directory can be made, where it matters
MkChoices == IF cacheDir THEN {TRUE} ELSE BOOLEAN

\* the caller calls geocode_reverse_resolve, which returns (or dies)
SyncResolve(r) ==
    /\ CanStart(r)
    /\ \E l \in Locations, mk1 \in MkChoices, mk2 \in MkChoices,
          resp \in Responses, writeOk \in BOOLEAN :
          LET c == geocode_reverse_resolve(geocode_reverse_new_for_location(l), lang,
                                           cacheDir, cache, mk1, mk2, resp, writeOk)
          IN  /\ res' = [res EXCEPT ![r] = [c.s EXCEPT !.prior = PriorFor(c.s.query),
                                                       !.loc = l]]
              /\ cacheDir' = c.dir
              /\ cache' = c.files
              /\ crashed' = c.crash
    /\ UNCHANGED <<lang, parse, built>>

\* the caller calls geocode_reverse_resolve_async
ResolveAsync(r) ==
    /\ CanStart(r)
    /\ \E l \in Locations, mk \in MkChoices :
          LET s == geocode_reverse_resolve_async(geocode_reverse_new_for_location(l),
                                                 lang, cacheDir, mk)
          IN  /\ res' = [res EXCEPT ![r] = [s EXCEPT !.prior = PriorFor(s.query),
                                                     !.loc = l]]
              /\ cacheDir' = (cacheDir \/ mk)
    /\ UNCHANGED <<lang, cache, crashed, parse, built>>

\* the caller cancels the GCancellable of a resolution that is under way
Cancel(r) ==
    /\ ~crashed
    /\ res[r].stage \in {"CacheLookup", "Fetching"}
    /\ res[r].cancelAt = "none"
    /\ res' = [res EXCEPT ![r].cancelAt = res[r].stage]
    /\ UNCHANGED <<lang, cacheDir, cache, crashed, parse, built>>

\* the main loop calls on_cache_data_loaded
OnCacheDataLoaded(r) ==
    /\ ~crashed
    /\ res[r].stage = "CacheLookup"
    /\ LET c == on_cache_data_loaded(res[r], cache[res[r].query])
       IN  /\ res' = [res EXCEPT ![r] = c.s]
           /\ crashed' = c.crash
    /\ UNCHANGED <<lang, cacheDir, cache, parse, built>>

\* the service answers and the main loop calls on_query_data_loaded
OnQueryDataLoaded(r) ==
    /\ ~crashed
    /\ res[r].stage = "Fetching"
    /\ \E resp \in Responses, mk \in MkChoices, writeOk \in BOOLEAN :
          LET c == on_query_data_loaded(res[r], resp, cacheDir, cache, mk, writeOk)
          IN  /\ res' = [res EXCEPT ![r] = c.s]
              /\ cacheDir' = c.dir
              /\ cache' = c.files
              /\ crashed' = c.crash
    /\ UNCHANGED <<lang, parse, built>>

\* the idle source runs: the caller's callback is called, and calls
\* geocode_reverse_resolve_finish
Dispatch(r) ==
    /\ ~crashed
    /\ res[r].stage = "Completing"
    /\ res' = [res EXCEPT ![r].stage = "Done",
                          ![r].callbacks = res[r].callbacks + 1,
                          ![r].out = geocode_reverse_resolve_finish(res[r].simple)]
    /\ UNCHANGED <<lang, cacheDir, cache, crashed, parse, built>>

Next ==
    \E r \in Res :
        \/ SyncResolve(r)
        \/ ResolveAsync(r)
        \/ Cancel(r)
        \/ OnCacheDataLoaded(r)
        \/ OnQueryDataLoaded(r)
        \/ Dispatch(r)

Spec == Init /\ [][Next]_vars

\* the same, where a cache read that was started ends, a message that was
\* queued is answered, and a completion scheduled in idle is dispatched
LiveSpec ==
    /\ Init
    /\ [][Next]_vars
    /\ \A r \in Res :
          /\ WF_vars(OnCacheDataLoaded(r))
          /\ WF_vars(OnQueryDataLoaded(r))
          /\ WF_vars(Dispatch(r))

----------------------------------------------------------------------------
(* resolve_json taken alone, on the documents a response can hold.         *)

\* the most members a document has beside `address`, and the most members its
\* `address` object has
MaxTop == 2

MaxSub == 1

\* member names: the renamed ones of attrs_map, one that attrs_map maps to
\* NULL, one that attrs_map does not have, and `error`
FieldNames ==
    { "display_name", "house_number", "road", "suburb", "city", "state",
      "postcode", "country", "country_code", "county", "pub", "error" }

\* member names inside `address`: two renamed ones, one that keeps its name
\* in attrs_map, one mapped to NULL, one attrs_map does not have
SubNames == {"road", "city", "country", "county", "pub"}

\* the members of a document: a name with a string or with the empty string,
\* and `error` and `osm_id` with a number
TopMembers ==
    (FieldNames \X {JString("A"), JString("")})
    \cup {<<"error", JNumber>>, <<"osm_id", JNumber>>}

\* the members of an `address` object
SubMembers == SubNames \X {JString("B"), JString("")}

\* the sequences of at most n of the members, with different names
MemberSeqs(members, n) ==
    UNION { { s \in [1..k -> members] :
                \A i, j \in 1..k : i # j => s[i][1] # s[j][1] } : k \in 0..n }

\* what the member `address` can be: an object, or a string
AddressNodes ==
    { JObject(ms) : ms \in MemberSeqs(SubMembers, MaxSub) }
    \cup { JString("A") }

\* where the member `address` stands among the others: nowhere, first, last
AddressPlaces == {"none", "first", "last"}

\* the object with the members ms and the `address` a at the place
Document(ms, a, place) ==
    CASE place = "first" -> JObject(<< <<"address", a>> >> \o ms)
      [] place = "last"  -> JObject(ms \o << <<"address", a>> >>)
      [] OTHER           -> JObject(ms)

\* what json_parser_load_from_data can leave resolve_json with, beside an
\* object: a syntax error, no root node (the empty text), a root that is no
\* object
NoObjects ==
    { [ok |-> FALSE, hasRoot |-> FALSE, root |-> JArray],
      [ok |-> TRUE, hasRoot |-> FALSE, root |-> JArray],
      [ok |-> TRUE, hasRoot |-> TRUE, root |-> JArray],
      [ok |-> TRUE, hasRoot |-> TRUE, root |-> JNumber],
      [ok |-> TRUE, hasRoot |-> TRUE, root |-> JString("A")] }

Loaded(d) == [ok |-> TRUE, hasRoot |-> TRUE, root |-> d]

ParseInit ==
    /\ lang = Null
    /\ cacheDir = FALSE
    /\ cache = [q \in Queries |-> NoFile]
    /\ res = [r \in Res |-> IdleRes]
    /\ crashed = FALSE
    /\ parse = NoParse
    /\ built = NoBuilt

Parsed(loaded) ==
    [stage |-> "parsed", loaded |-> loaded, ret |-> resolve_json_loaded(loaded)]

\* one call of resolve_json
ParseResolveJson ==
    /\ parse.stage = "none"
    /\ \/ \E loaded \in NoObjects : parse' = Parsed(loaded)
       \/ \E text \in JsonTexts :
             parse' = Parsed(json_parser_load_from_data(<<text>>))
       \/ \E ms \in MemberSeqs(TopMembers, MaxTop) :
             \/ parse' = Parsed(Loaded(Document(ms, JArray, "none")))
             \/ \E a \in AddressNodes : \E place \in {"first", "last"} :
                   parse' = Parsed(Loaded(Document(ms, a, place)))
    /\ UNCHANGED <<lang, cacheDir, cache, res, crashed, built>>

ParseNext == ParseResolveJson

ParseSpec == ParseInit /\ [][ParseNext]_vars

----------------------------------------------------------------------------
(* A GeocodeReverse object taken alone: its parameter table, and the       *)
(* queries get_resolve_query_for_params builds from it.                    *)

\* the most queries built from one object
MaxCalls == 2

\* the tags _geocode_object_get_lang can give here: none, one, an empty one
LocaleTags == Langs \cup {Str("")}

\* the values a table can hold for the parameters the query builder sets
\* itself, when it holds one
CallerValues(key) ==
    CASE key = "format"          -> {"xml"}
      [] key = "email"           -> {"me@example.org"}
      [] key = "addressdetails"  -> {"0"}
      [] key = "accept-language" -> {"fr", ""}
      [] OTHER                   -> {}

CallerKeys == {"format", "email", "addressdetails", "accept-language"}

\* the tables with at most one value for each of those parameters
CallerTables ==
    { ht \in SUBSET (UNION { {<<k, v>> : v \in CallerValues(k)} : k \in CallerKeys }) :
        \A p, q \in ht : p[1] = q[1] => p = q }

\* the entries of extra put into the table ht
Merge(ht, extra) == {p \in ht : p[1] \notin HtKeys(extra)} \cup extra

QueryInit ==
    /\ lang \in LocaleTags
    /\ cacheDir = FALSE
    /\ cache = [q \in Queries |-> NoFile]
    /\ res = [r \in Res |-> IdleRes]
    /\ crashed = FALSE
    /\ parse = NoParse
    /\ built = NoBuilt

\* an object is made for a location, and its table given more parameters
NewObject ==
    /\ built.stage = "none"
    /\ \E l \in Locations : \E extra \in CallerTables :
          built' = [stage |-> "object",
                    created |-> Merge(geocode_reverse_new_for_location(l), extra),
                    ht |-> Merge(geocode_reverse_new_for_location(l), extra),
                    query |-> {},
                    calls |-> 0]
    /\ UNCHANGED <<lang, cacheDir, cache, res, crashed, parse>>

\* a resolution of the object builds its query
BuildQuery ==
    /\ built.stage \in {"object", "built"}
    /\ built.calls < MaxCalls
    /\ built' = [built EXCEPT !.stage = "built",
                              !.ht = BuildFor(built.ht, lang).orig_ht,
                              !.query = BuildFor(built.ht, lang).query,
                              !.calls = built.calls + 1]
    /\ UNCHANGED <<lang, cacheDir, cache, res, crashed, parse>>

QueryNext == NewObject \/ BuildQuery

QuerySpec == QueryInit /\ [][QueryNext]_vars

----------------------------------------------------------------------------
(* The properties.                                                         *)

\* the resolution s has its result: scheduled for the callback, or returned
Terminal(s) == s.stage \in {"Completing", "Done"}

\* the result of the resolution s: the GSimpleAsyncResult's, or the value
\* geocode_reverse_resolve returned
Outcome(s) == IF s.mode = "async" THEN s.simple ELSE s.out

\* the GCancellable of s was cancelled while its cache file was being read
ReadCancelled(s) == s.cancelAt = "CacheLookup"

\* what the answer resp alone makes of a resolution: the fetch failure, or
\* what the body up to its first zero byte parses to
FromResponse(resp) ==
    IF resp.status # SOUP_STATUS_OK
    THEN OutOf(RetError(IOFailed(resp)))
    ELSE OutOf(resolve_json(g_strndup(resp.body)))

C2_StoredByteExact ==
    \A r \in Res :
        ( /\ Terminal(res[r])
          /\ res[r].net = 1
          /\ res[r].resp.status = SOUP_STATUS_OK
          /\ ~Outcome(res[r]).null )
            => /\ Len(res[r].stores) = 1
               /\ res[r].stores[1].query = res[r].query
               /\ res[r].stores[1].contents = res[r].resp.body

\* what the code does keep of C2: the store is called exactly once, with the
\* resolution's query and the body up to its first zero byte
C2_StoredUpToNul ==
    \A r \in Res :
        ( /\ Terminal(res[r])
          /\ res[r].net = 1
          /\ res[r].resp.status = SOUP_STATUS_OK
          /\ ~Outcome(res[r]).null )
            => /\ Len(res[r].stores) = 1
               /\ res[r].stores[1].query = res[r].query
               /\ res[r].stores[1].contents = g_strndup(res[r].resp.body)

\* C3: a step of a resolution whose lookup has hit the cache leaves every
\* cache file as it was, whether the cached content parses or not, and such a
\* resolution has called neither the store nor the network; the step that ends
\* an asynchronous lookup leaves every cache file as it was.
C3_HitNeverWrites ==
    [][ \A r \in Res :
          /\ (res'[r] # res[r] /\ res'[r].look = "hit")
                => /\ cache' = cache
                   /\ res'[r].stores = <<>>
                   /\ res'[r].net = 0
          /\ (res[r].stage = "CacheLookup" /\ res'[r].stage # "CacheLookup")
                => cache' = cache ]_vars

\* a resolution hit the cache, the content did not parse, and the file is as
\* the lookup found it
C3_Witness ==
    \E r \in Res :
        /\ res[r].stage = "Done"
        /\ res[r].look = "hit"
        /\ res[r].out.null
        /\ res[r].seen.exists
        /\ cache[res[r].query] = res[r].seen

\* the fetched body is no JSON, or is a service error
Unparsable(body) == body \in {<<"T_BAD">>, <<"T_ERR">>}

\* C4: the step in which a resolution that missed the cache gets a failed
\* fetch, or a body that is no JSON or holds an error field, leaves every cache
\* file as it was, calls no store, and sets the error as the result.
C4_FailureNeverStored ==
    [][ \A r \in Res :
          ( /\ res[r].resp = NoResp
            /\ res'[r].resp # NoResp
            /\ \/ res'[r].resp.status # SOUP_STATUS_OK
               \/ Unparsable(res'[r].resp.body) )
              => /\ cache' = cache
                 /\ res'[r].stores = <<>>
                 /\ Terminal(res'[r])
                 /\ Outcome(res'[r]).null
                 /\ Outcome(res'[r]).error # NoError
                 /\ (res'[r].resp.status # SOUP_STATUS_OK
                        => Outcome(res'[r]).error.code = "G_IO_ERROR_FAILED")
                 /\ (res'[r].resp.status = SOUP_STATUS_OK
                        => Outcome(res'[r]).error.domain
                              = (IF res'[r].resp.body = <<"T_BAD">>
                                 THEN "JSON_PARSER_ERROR" ELSE "GEOCODE_ERROR")) ]_vars

\* a resolution fetched a body that is no JSON, was handed the parse error,
\* and its query has no cache file
C4_Witness ==
    \E r \in Res :
        /\ res[r].stage = "Done"
        /\ res[r].mode = "async"
        /\ res[r].resp.status = SOUP_STATUS_OK
        /\ res[r].resp.body = <<"T_BAD">>
        /\ res[r].out.error.domain = "JSON_PARSER_ERROR"
        /\ ~cache[res[r].query].exists

C6_ReadFailureIsMiss ==
    \A r \in Res :
        ( /\ res[r].stage \notin {"Idle", "CacheLookup"}
          /\ (~res[r].seen.exists \/ ReadCancelled(res[r])) )
            => /\ res[r].net = 1
               /\ res[r].look \in {"miss", "nopath", "cancelled"}
               /\ Terminal(res[r]) => Outcome(res[r]) = FromResponse(res[r].resp)

\* a resolution whose read of an existing cache file was cancelled fetched
\* the answer and was handed a table
C6_Witness ==
    \E r \in Res :
        /\ res[r].stage = "Done"
        /\ ReadCancelled(res[r])
        /\ res[r].seen.exists
        /\ res[r].net = 1
        /\ ~res[r].out.null

\* C7 as the specification states it: an asynchronous resolution whose
\* handlers have run (it is past the cache lookup and the fetch) has had its
\* completion scheduled exactly once.
C7_CompletedExactlyOnce ==
    \A r \in Res :
        (res[r].mode = "async" /\ res[r].stage \notin {"Idle", "CacheLookup", "Fetching"})
            => res[r].completions = 1

\* what the code does keep of C7: the completion is never scheduled twice, the
\* callback runs once per scheduled completion, and on the five paths that
\* return (cache hit parsed or not, fetch failed, fetched body parsed or not)
\* it is scheduled exactly once
C7_NeverTwice ==
    \A r \in Res :
        /\ res[r].completions <= 1
        /\ res[r].callbacks <= res[r].completions
        /\ (res[r].mode = "async" /\ Terminal(res[r])) => res[r].completions = 1
        /\ (res[r].mode = "async" /\ res[r].stage = "Done") => res[r].callbacks = 1
        /\ res[r].stage \in {"CacheLookup", "Fetching"} => res[r].completions = 0

LocationOf(s) ==
    CHOOSE l \in Locations :
        get_resolve_query_for_params(geocode_reverse_new_for_location(l), lang) = s.query

\* geocode_reverse_resolve on the inputs the asynchronous resolution s met:
\* the same query, the cache file as its lookup found it, the same answer,
\* and a write that succeeds as its write did
SyncOn(s) ==
    geocode_reverse_resolve(
        geocode_reverse_new_for_location(LocationOf(s)), lang,
        s.look # "nopath", [q \in Queries |-> s.seen], FALSE, TRUE, s.resp,
        IF s.stores # <<>> THEN s.stores[1].ok ELSE TRUE).s

C10_AtMostOneRequest ==
    \A r \in Res :
        /\ res[r].net <= 1
        /\ res[r].net = 1 => (~res[r].seen.exists \/ ReadCancelled(res[r]))
        /\ res[r].net = 1 => res[r].look \in {"miss", "nopath", "cancelled"}
        /\ (Terminal(res[r]) /\ res[r].resp # NoResp) => res[r].net = 1

\* a resolution whose fetch failed was handed the failure after one request
C10_Witness ==
    \E r \in Res :
        /\ res[r].stage = "Done"
        /\ res[r].resp.status = 404
        /\ res[r].net = 1
        /\ res[r].out.error.code = "G_IO_ERROR_FAILED"

\* C11 as the specification states it, where every cache read and every
\* request ends (LiveSpec): every resolution that was started is in the end
\* delivered its result, a table (Done) or an error (Failed).
C11_EventuallyTerminal ==
    \A r \in Res : (res[r].stage # "Idle") ~> (res[r].stage = "Done")

\* what the code does keep of C11: a resolution that was started is in the
\* end delivered its result unless the process dies in resolve_json
C11_TerminalUnlessCrashed ==
    \A r \in Res : (res[r].stage # "Idle") ~> (res[r].stage = "Done" \/ crashed)

\* what the code does keep of C11: a resolution that was delivered its result
\* takes no further step, so it does nothing more to the cache or the network
C11_DoneIsFinal ==
    [][ \A r \in Res : res[r].stage = "Done" => res'[r] = res[r] ]_vars

\* the fetch of the resolution s succeeded and its body parsed to a table
FetchedAndParsed(s) ==
    /\ Terminal(s)
    /\ s.net = 1
    /\ s.resp.status = SOUP_STATUS_OK
    /\ ~resolve_json(g_strndup(s.resp.body)).null

\* C12: a resolution whose fetch succeeded and whose body parsed has the table
\* the body parses to as its result, with no error, whether its save to the
\* cache succeeded or failed; two such resolutions given the same body have
\* the same result though the save of one succeeded and of the other failed.
C12_WriteFailureSwallowed ==
    \A r \in Res :
        FetchedAndParsed(res[r])
            => /\ Len(res[r].stores) = 1
               /\ ~Outcome(res[r]).null
               /\ Outcome(res[r]).error = NoError
               /\ Outcome(res[r]).ht = resolve_json(g_strndup(res[r].resp.body)).ht
               /\ \A q \in Res :
                     ( /\ FetchedAndParsed(res[q])
                       /\ res[q].resp.body = res[r].resp.body
                       /\ res[q].stores[1].ok # res[r].stores[1].ok )
                         => Outcome(res[q]) = Outcome(res[r])

\* two resolutions fetched the same body; the save of one succeeded, the save
\* of the other failed, and both were handed the same table
C12_Witness ==
    \E r, q \in Res :
        /\ res[r].stage = "Done" /\ res[q].stage = "Done"
        /\ res[r].mode = "async"
        /\ FetchedAndParsed(res[r]) /\ FetchedAndParsed(res[q])
        /\ res[r].resp.body = res[q].resp.body
        /\ ~res[r].stores[1].ok
        /\ res[q].stores[1].ok
        /\ ~res[r].out.null
        /\ res[r].out = res[q].out

\* the resolution s is under way: started, and its result not yet delivered
InFlight(s) == s.stage \in {"CacheLookup", "Fetching", "Completing"}

\* C13 as the specification states it: of two resolutions for different
\* coordinates that are under way at the same time, neither is answered from
\* a cache entry the other has stored.
C13_NoInterference ==
    \A r, q \in Res :
        ( /\ r # q
          /\ InFlight(res[r]) /\ InFlight(res[q])
          /\ res[r].loc # res[q].loc )
            => ~ ( /\ res[r].look = "hit"
                   /\ res[q].stores # <<>>
                   /\ res[q].stores[1].ok
                   /\ res[q].stores[1].query = res[r].query
                   /\ res[r].seen.data = res[q].stores[1].contents )

\* what the code does keep of C13: a step of a resolution leaves the cache
\* file of every other query as it was
C13_OtherQueriesUntouched ==
    [][ \A r \in Res : \A k \in Queries :
          (res'[r] # res[r] /\ k # res'[r].query) => cache'[k] = cache[k] ]_vars

\* the asynchronous resolution s has looked for its cache file and not found it
AsyncMissed(s) ==
    /\ s.mode = "async"
    /\ s.stage \notin {"Idle", "CacheLookup"}
    /\ s.look = "miss"
    /\ ~s.seen.exists

\* C14: of two asynchronous resolutions of the same query that both missed the
\* cache, each has made its own lookup and sent its own request, and each one
\* that has its result has had its completion scheduled once, with the result
\* the answer to its own request makes.
C14_NotCoalesced ==
    \A r, q \in Res :
        ( /\ r # q
          /\ res[r].query = res[q].query
          /\ res[r].look = "miss" /\ res[r].mode = "async" /\ ~res[r].seen.exists
          /\ res[q].look = "miss" /\ res[q].mode = "async" /\ ~res[q].seen.exists )
            => /\ AsyncMissed(res[r])
               /\ res[r].net = 1
               /\ res[r].stage = "Fetching" => res[r].resp = NoResp
               /\ Terminal(res[r])
                     => /\ res[r].completions = 1
                        /\ res[r].resp # NoResp
                        /\ Outcome(res[r]) = FromResponse(res[r].resp)

\* two asynchronous resolutions of the same query both missed the cache while
\* both were under way; each got its own answer, one a table and the other a
\* failure, and each was handed its own
C14_Witness ==
    \E r, q \in Res :
        /\ r # q
        /\ res[r].query = res[q].query
        /\ AsyncMissed(res[r]) /\ AsyncMissed(res[q])
        /\ res[r].stage = "Done" /\ res[q].stage = "Done"
        /\ res[r].net = 1 /\ res[q].net = 1
        /\ res[r].resp.status = SOUP_STATUS_OK /\ ~res[r].out.null
        /\ res[q].resp.status = 404 /\ res[q].out.null

\* the request of the resolution s was answered with a status other than 200
FetchFailed(s) == s.resp # NoResp /\ s.resp.status # SOUP_STATUS_OK

\* C15: a resolution whose request is answered with a status other than 200
\* has its result at once: no table, and the error G_IO_ERROR_FAILED of the
\* domain G_IO_ERROR whose message is the reason phrase of the response when
\* it has one and "Query failed" when it has none. The body, a document that
\* parses included, is given to no parser and to no call of the cache save.
C15_FetchFailure ==
    \A r \in Res :
        FetchFailed(res[r])
            => /\ Terminal(res[r])
               /\ Outcome(res[r]).null
               /\ Outcome(res[r]).ht = {}
               /\ Outcome(res[r]).error.domain = "G_IO_ERROR"
               /\ Outcome(res[r]).error.code = "G_IO_ERROR_FAILED"
               /\ Outcome(res[r]).error.message =
                      IF res[r].resp.reason.null THEN "Query failed"
                      ELSE res[r].resp.reason.str
               /\ res[r].stores = <<>>

\* C15, on the steps: the step in which a resolution's request is answered
\* with a status other than 200 leaves every cache file as it was.
C15_FailureLeavesCache ==
    [][ \A r \in Res :
            (~FetchFailed(res[r]) /\ FetchFailed(res'[r])) => cache' = cache ]_vars

\* one resolution was answered 404 "Not Found" with a body that parses to a
\* table, and another was answered with a status that has no reason phrase
C15_Witness ==
    \E r, q \in Res :
        /\ res[r].stage = "Done" /\ res[r].net = 1
        /\ res[r].resp.status = 404
        /\ ~resolve_json(g_strndup(res[r].resp.body)).null
        /\ res[r].out.error.message = "Not Found"
        /\ res[q].stage = "Done" /\ res[q].net = 1
        /\ FetchFailed(res[q]) /\ res[q].resp.reason.null
        /\ res[q].out.error.message = "Query failed"

----------------------------------------------------------------------------
(* The properties of resolve_json, on ParseSpec.                           *)

\* resolve_json was called on a document whose root is an object
ParsedObject ==
    /\ parse.stage = "parsed"
    /\ parse.loaded.ok /\ parse.loaded.hasRoot
    /\ parse.loaded.root.type = "object"

\* member i of the parsed object: its name and its node
TopName(i) == parse.loaded.root.members[i][1]

TopNode(i) == parse.loaded.root.members[i][2]

TopIndexes == 1..Len(parse.loaded.root.members)

\* C16: a document whose root object has a member `error` gives no table but
\* the error GEOCODE_ERROR_NOT_SUPPORTED, whatever its other members are; the
\* message is the member's string when that is a string and not empty, and
\* "Query not supported" when it is the empty string or no string.
C16_ErrorMember ==
    ParsedObject =>
        \A i \in TopIndexes :
            TopName(i) = "error"
                => /\ ~parse.ret.crash
                   /\ parse.ret.null
                   /\ parse.ret.ht = {}
                   /\ parse.ret.error.domain = "GEOCODE_ERROR"
                   /\ parse.ret.error.code = "GEOCODE_ERROR_NOT_SUPPORTED"
                   /\ parse.ret.error.message =
                          IF TopNode(i).type = "string" /\ TopNode(i).str # ""
                          THEN TopNode(i).str
                          ELSE "Query not supported"

\* the document has a member with a string before its `error`, and an
\* `address` after it; the message is the string of `error`
C16_Witness ==
    /\ ParsedObject
    /\ Len(parse.loaded.root.members) = 3
    /\ TopName(1) = "city" /\ TopNode(1) = JString("A")
    /\ TopName(2) = "error" /\ TopNode(2) = JString("A")
    /\ TopName(3) = "address" /\ TopNode(3).type = "object"
    /\ parse.ret.null
    /\ parse.ret.error.message = "A"

\* the error json_parser_load_from_data sets
IsParseFailure(ret) ==
    /\ ~ret.crash
    /\ ret.null
    /\ ret.ht = {}
    /\ ret.error.domain = "JSON_PARSER_ERROR"

\* C17: resolve_json gives no table but a parse error for every text that is
\* no well-formed JSON, and for every well-formed one whose root is no object.
C17_ParseFailure ==
    ( /\ parse.stage = "parsed"
      /\ \/ ~parse.loaded.ok
         \/ parse.loaded.hasRoot /\ parse.loaded.root.type # "object" )
        => IsParseFailure(parse.ret)

\* C17, the half of it the parser keeps: a text that is no well-formed JSON
\* gives no table but the error of json_parser_load_from_data.
C17_SyntaxErrorFails ==
    (parse.stage = "parsed" /\ ~parse.loaded.ok) => IsParseFailure(parse.ret)

\* the member `address` of the parsed object, when it has one
HasAddress == \E i \in TopIndexes : TopName(i) = "address"

Address == Member(parse.loaded.root, "address")

SubIndexes == IF HasAddress THEN 1..Len(Address.members) ELSE {}

SubName(j) == Address.members[j][1]

SubNode(j) == Address.members[j][2]

\* resolve_json was called on an object without a member `error`, whose
\* `address`, if it has one, is an object
ParsedResponse ==
    /\ ParsedObject
    /\ \A i \in TopIndexes : TopName(i) # "error"
    /\ HasAddress => Address.type = "object"

\* the node is a string that is not empty
Filled(node) == node.type = "string" /\ node.str # ""

\* the entries of attrs_map that rename: the name is given a canonical one
Renamed(name) == ~nominatim_to_xep(name).null

\* the name under which the table holds the member called name
KeyOf(name) == IF Renamed(name) THEN nominatim_to_xep(name).str ELSE name

\* the `address` object has a filled member that goes under the key
AddressGives(key) == \E j \in SubIndexes : Filled(SubNode(j)) /\ KeyOf(SubName(j)) = key

\* the table has the key with the value, and has not the name
HoldsRenamed(ret, name, value) ==
    /\ ~ret.crash /\ ~ret.null
    /\ <<nominatim_to_xep(name).str, value>> \in ret.ht
    /\ name \notin HtKeys(ret.ht)

\* C18: for every entry of attrs_map that gives a canonical name, a response
\* with a filled member of the entry's name, at the top or in `address`, gives
\* a table that has the canonical name with the member's value and has not
\* the member's own name (a member at the top that `address` has too is left
\* to C19).
C18_Renamed ==
    ParsedResponse =>
        /\ \A i \in TopIndexes :
              (Renamed(TopName(i)) /\ Filled(TopNode(i))
                 /\ ~AddressGives(KeyOf(TopName(i))))
                  => HoldsRenamed(parse.ret, TopName(i), TopNode(i).str)
        /\ \A j \in SubIndexes :
              (Renamed(SubName(j)) /\ Filled(SubNode(j)))
                  => HoldsRenamed(parse.ret, SubName(j), SubNode(j).str)

\* the canonical names of attrs_map
XepNames == { attrs_map[i][2].str : i \in {k \in 1..Len(attrs_map) : ~attrs_map[k][2].null} }

\* C18, as far as the parser keeps it: the same for the members of `address`
\* and for the members at the top but the first one listed, the member's own
\* name being absent when it is no canonical name itself.
C18_RenamedButFirst ==
    ParsedResponse =>
        /\ \A i \in TopIndexes :
              (i > 1 /\ Renamed(TopName(i)) /\ Filled(TopNode(i))
                 /\ ~AddressGives(KeyOf(TopName(i))))
                  => /\ ~parse.ret.null
                     /\ <<KeyOf(TopName(i)), TopNode(i).str>> \in parse.ret.ht
                     /\ TopName(i) \notin XepNames
                            => TopName(i) \notin HtKeys(parse.ret.ht)
        /\ \A j \in SubIndexes :
              (Renamed(SubName(j)) /\ Filled(SubNode(j)))
                  => /\ ~parse.ret.null
                     /\ <<KeyOf(SubName(j)), SubNode(j).str>> \in parse.ret.ht
                     /\ SubName(j) \notin XepNames
                            => SubName(j) \notin HtKeys(parse.ret.ht)

\* what is left of C18 for the first member listed: a response whose only
\* member is a filled `city` gives the empty table
C18_FirstMemberSkipped ==
    /\ ParsedResponse
    /\ parse.loaded.root.members = << <<"city", JString("A")>> >>
    /\ ~parse.ret.null
    /\ parse.ret.ht = {}

\* C19: when a filled member at the top and a filled member of `address` go
\* under the same key of the table, the table holds the value of the member
\* of `address`.
C19_AddressWins ==
    ParsedResponse =>
        \A i \in TopIndexes : \A j \in SubIndexes :
            ( /\ Filled(TopNode(i)) /\ Filled(SubNode(j))
              /\ KeyOf(TopName(i)) = KeyOf(SubName(j)) )
                => /\ ~parse.ret.crash /\ ~parse.ret.null
                   /\ HtLookup(parse.ret.ht, KeyOf(SubName(j))) = Str(SubNode(j).str)

\* the document has `city` with one string as its second member and an
\* `address` after it with `city` and another string; the table has the
\* locality of `address`
C19_Witness ==
    /\ ParsedResponse
    /\ Len(parse.loaded.root.members) = 3
    /\ TopName(1) = "osm_id"
    /\ TopName(2) = "city" /\ TopNode(2) = JString("A")
    /\ TopName(3) = "address"
    /\ Address.members = << <<"city", JString("B")>> >>
    /\ parse.ret.ht = {<<"locality", "B">>}

\* resolve_json was called on an object without a member `error`
ParsedNoError ==
    /\ ParsedObject
    /\ \A i \in TopIndexes : TopName(i) # "error"

\* the members of `address` when that is an object
ObjectIndexes == IF HasAddress /\ Address.type = "object" THEN SubIndexes ELSE {}

\* an `address` object has a filled member that goes under the key
ObjectGives(key) ==
    \E j \in ObjectIndexes : Filled(SubNode(j)) /\ KeyOf(SubName(j)) = key

\* the call gave a table that has the name with the value
HoldsKept(ret, name, value) ==
    /\ ~ret.crash /\ ~ret.null
    /\ <<name, value>> \in ret.ht

\* C20: every filled member, at the top or in `address`, whose name attrs_map
\* does not have or maps to NULL is in the table under its own name with its
\* value, and the call gives a table (a member at the top that `address` has
\* too is left to C19).
C20_Kept ==
    ParsedNoError =>
        /\ \A i \in TopIndexes :
              (~Renamed(TopName(i)) /\ Filled(TopNode(i)) /\ ~ObjectGives(TopName(i)))
                  => HoldsKept(parse.ret, TopName(i), TopNode(i).str)
        /\ \A j \in ObjectIndexes :
              (~Renamed(SubName(j)) /\ Filled(SubNode(j)))
                  => HoldsKept(parse.ret, SubName(j), SubNode(j).str)

\* C20, as far as the parser keeps it: the same for the members of `address`
\* and for the members at the top but the first one listed, when `address` is
\* an object or absent.
C20_KeptButFirst ==
    ParsedResponse =>
        /\ \A i \in TopIndexes :
              (i > 1 /\ ~Renamed(TopName(i)) /\ Filled(TopNode(i))
                 /\ ~AddressGives(TopName(i)))
                  => HoldsKept(parse.ret, TopName(i), TopNode(i).str)
        /\ \A j \in SubIndexes :
              (~Renamed(SubName(j)) /\ Filled(SubNode(j)))
                  => HoldsKept(parse.ret, SubName(j), SubNode(j).str)

\* what is left of C20 for the first member listed: a response whose only
\* member is a filled `pub` gives the empty table
C20_FirstMemberSkipped ==
    /\ ParsedNoError
    /\ parse.loaded.root.members = << <<"pub", JString("A")>> >>
    /\ ~parse.ret.null
    /\ parse.ret.ht = {}

\* and for a member `address` that is a string: the call dies
C20_AddressStringDies ==
    /\ ParsedNoError
    /\ parse.loaded.root.members = << <<"osm_id", JNumber>>, <<"address", JString("A")>> >>
    /\ parse.ret.crash

\* C21: a table resolve_json returns has no empty string as a value; and when
\* a member at the top, not the first listed, is filled and `address` has the
\* member of the same key only with the empty string, the table holds the
\* value of the member at the top.
C21_NoEmptyValue ==
    (ParsedObject /\ ~parse.ret.crash /\ ~parse.ret.null) =>
        /\ \A p \in parse.ret.ht : p[2] # ""
        /\ ParsedResponse =>
              \A i \in TopIndexes : \A j \in SubIndexes :
                  ( /\ i > 1
                    /\ Filled(TopNode(i))
                    /\ KeyOf(SubName(j)) = KeyOf(TopName(i))
                    /\ SubNode(j) = JString("") )
                      => <<KeyOf(TopName(i)), TopNode(i).str>> \in parse.ret.ht

\* the document has `country` with the empty string and a filled `city` at
\* the top, and an `address` whose `city` is the empty string: the table has
\* the locality of the top and nothing else
C21_Witness ==
    /\ ParsedResponse
    /\ Len(parse.loaded.root.members) = 3
    /\ TopName(1) = "country" /\ TopNode(1) = JString("")
    /\ TopName(2) = "city" /\ TopNode(2) = JString("A")
    /\ TopName(3) = "address"
    /\ Address.members = << <<"city", JString("")>> >>
    /\ parse.ret.ht = {<<"locality", "A">>}

\* C22, the response of the specification: the document with city Guildford,
\* postcode GU2 7UP and an `address` with country_code gb gives the table
\* with locality, postalcode and countrycode and nothing else.
C22_Guildford ==
    (parse.stage = "parsed" /\ parse.loaded = json_parser_load_from_data(<<"T_REV">>))
        => /\ ~parse.ret.crash /\ ~parse.ret.null
           /\ parse.ret.ht = { <<"locality", "Guildford">>,
                               <<"postalcode", "GU2 7UP">>,
                               <<"countrycode", "gb">> }

\* the entries of a response, the first member of the top level left out:
\* the filled members of `address`, and the filled members of the top level
\* whose key `address` does not give
EntriesButFirst ==
    { <<KeyOf(SubName(j)), SubNode(j).str>> : j \in {k \in SubIndexes : Filled(SubNode(k))} }
    \cup { <<KeyOf(TopName(i)), TopNode(i).str>> :
             i \in {k \in TopIndexes : /\ k > 1
                                       /\ Filled(TopNode(k))
                                       /\ ~AddressGives(KeyOf(TopName(k)))} }

\* C22, as far as the parser keeps it: the table holds exactly the filled
\* members of the top level but the first one listed, and of `address`, under
\* their keys; an `address` that is an object adds no key.
C22_ExactButFirst ==
    ParsedResponse =>
        /\ ~parse.ret.crash /\ ~parse.ret.null
        /\ parse.ret.ht = EntriesButFirst

\* what the response of the specification gives: no locality
C22_GuildfordWithoutLocality ==
    /\ parse.stage = "parsed"
    /\ parse.loaded = json_parser_load_from_data(<<"T_REV">>)
    /\ parse.ret.ht = { <<"postalcode", "GU2 7UP">>, <<"countrycode", "gb">> }

----------------------------------------------------------------------------
(* The properties of the query builder, on QuerySpec.                      *)

\* the value get_resolve_query_for_params sets for a parameter of its own
DefaultOf(key) ==
    CASE key = "format"         -> "json"
      [] key = "email"          -> "zeeshanak@gnome.org"
      [] OTHER                  -> "1"

DefaultKeys == {"format", "email", "addressdetails"}

\* the query has one value for each of its parameters
NoDuplicateKey(query) == \A p, q \in query : p[1] = q[1] => p = q

C24_AcceptLanguage ==
    built.stage = "built" =>
        HtLookup(built.query, "accept-language") =
            IF ~HtLookup(built.created, "accept-language").null
            THEN HtLookup(built.created, "accept-language")
            ELSE IF ~lang.null /\ lang.str # ""
            THEN lang
            ELSE Null

\* C24, as the builder has it: the value of the table when it has one, and
\* when it has none the tag whenever there is one, empty or not.
C24_TagWhenGiven ==
    built.stage = "built" =>
        HtLookup(built.query, "accept-language") =
            IF ~HtLookup(built.created, "accept-language").null
            THEN HtLookup(built.created, "accept-language")
            ELSE lang

\* the table has no accept-language, the tag is the empty string, and the
\* query has accept-language with the empty string
C24_EmptyTagSent ==
    /\ built.stage = "built"
    /\ HtLookup(built.created, "accept-language").null
    /\ lang = Str("")
    /\ <<"accept-language", "">> \in built.query

----------------------------------------------------------------------------
(* More properties of the resolutions, on Spec.                            *)

\* the query built for the location, with the tag of the locale
QueryOf(loc) == get_resolve_query_for_params(geocode_reverse_new_for_location(loc), lang)

\* the last call of _geocode_glib_cache_save of the resolution s
LastStore(s) == s.stores[Len(s.stores)]

\* C25: the query of a resolution is the one built from its object's
\* parameters and the locale's tag; the cache file its lookup reads is the
\* file of that query; and a call of the store writes the file of that query
\* and no other. Resolutions with the same query so use the same file.
C25_OneKeyPerQuery ==
    [][ \A r \in Res :
          /\ res'[r].stage # "Idle" => res'[r].query = QueryOf(res'[r].loc)
          /\ (res'[r].look # res[r].look /\ res'[r].look \in {"hit", "miss"})
                => res'[r].seen = cache[res'[r].query]
          /\ Len(res'[r].stores) > Len(res[r].stores)
                => /\ LastStore(res'[r]).query = res'[r].query
                   /\ LastStore(res'[r]).ok
                         => cache'[res'[r].query] = File(LastStore(res'[r]).contents)
                   /\ \A k \in Queries : k # res'[r].query => cache'[k] = cache[k]
      ]_vars

\* with a tag of the locale in the query, one resolution missed the cache,
\* fetched and stored, and another of the same query read what it stored
C25_Witness ==
    \E r, q \in Res :
        /\ r # q
        /\ ~lang.null
        /\ res[r].query = res[q].query
        /\ res[r].stage = "Done" /\ res[r].look = "miss"
        /\ Len(res[r].stores) = 1 /\ res[r].stores[1].ok
        /\ res[q].stage = "Done" /\ res[q].look = "hit"
        /\ res[q].seen = File(res[r].stores[1].contents)
        /\ cache[res[r].query] = res[q].seen

\* the resolution s has a table that came from the answer to its request
TableFromNetwork(s) ==
    /\ Terminal(s)
    /\ s.net = 1
    /\ ~Outcome(s).null

\* C26: a resolution that has a table from the network has called the store
\* once by the time its completion is scheduled (asynchronous) or it returns
\* (synchronous), so before the caller has the table; and once a resolution has
\* its result it calls the store no more.
C26_StoreBeforeResult ==
    [][ \A r \in Res :
          /\ TableFromNetwork(res'[r]) => Len(res'[r].stores) = 1
          /\ Terminal(res[r]) => res'[r].stores = res[r].stores
      ]_vars

\* an asynchronous resolution has its table from the network scheduled, its
\* callback not yet called, and the cache file is already written
C26_Witness ==
    \E r \in Res :
        /\ res[r].mode = "async"
        /\ res[r].stage = "Completing"
        /\ res[r].callbacks = 0
        /\ TableFromNetwork(res[r])
        /\ Len(res[r].stores) = 1
        /\ res[r].stores[1].ok
        /\ cache[res[r].query] = File(res[r].stores[1].contents)

\* C27: what geocode_reverse_resolve or geocode_reverse_resolve_finish
\* returned is a table with no error set, or NULL with an error set, whatever
\* the way the resolution went; the same holds of the result scheduled for
\* the callback.
C27_TableOrError ==
    \A r \in Res :
        /\ res[r].stage = "Done"
              => /\ res[r].out.null <=> res[r].out.error # NoError
                 /\ res[r].out.null => res[r].out.ht = {}
        /\ res[r].stage = "Completing"
              => res[r].simple.null <=> res[r].simple.error # NoError

\* one resolution returned a table read from the cache, and another, whose
\* answer was the service's error, returned NULL with that error
C27_Witness ==
    \E r, q \in Res :
        /\ res[r].stage = "Done" /\ res[r].look = "hit"
        /\ ~res[r].out.null /\ res[r].out.error = NoError
        /\ res[q].stage = "Done" /\ res[q].mode = "async" /\ res[q].net = 1
        /\ res[q].out.null
        /\ res[q].out.error.code = "GEOCODE_ERROR_NOT_SUPPORTED"

====
